---- MODULE Spec2Model ----
(***************************************************************************)
(* Model of the upload / poll / cancel state machine of the Home component *)
(* (src/web/src/app/page.tsx).  One action per event handler or per        *)
(* resumption of an async function after an await.  React state is the     *)
(* set of useState cells, the object URLs are numbered in order of         *)
(* creation, and every AbortController created by pollForResult is one     *)
(* entry of loops.  The two relay routes between the page and the backend  *)
(* (src/unnamed/part_000, part_001) are the operators POST and GET.        *)
(***************************************************************************)
EXTENDS Naturals, FiniteSets

\* ---------------------------------------------------------------- bounds
\* object URLs that may be created in one run
MaxUrls == 2
\* calls of handleSubmit that pass the file check (each may start one loop)
MaxSubmits == 2
\* 202 replies the backend gives to one loop in the session-level Spec
MaxPending == 1

\* ------------------------------------------------------------- constants
MAX_POLLS == 45

Null == 0
NoFile == "nofile"
Files == {"a.png"}
NoField == "undefined"

Statuses == {"idle", "uploading", "processing", "success", "error"}

ChooseImageMsg == "Please choose an image before checking."
ContactModelMsg == "Unable to contact the model."
MissingTaskMsg == "Missing task information from the backend."
UploadFailedMsg == "Upload failed. Please try again."
ProcessingFailedMsg == "Processing failed."
EmptyFileMsg == "Received an empty file."
LostConnectionMsg == "Lost connection to the processor."
TimedOutMsg == "Timed out while waiting for the model."
NoMsg == "null"

\* ------------------------------------------------ the backend's replies
\* A JSON document as the client reads it: it does not parse, or it is an
\* object whose error / taskId fields are absent, empty or set.
BackendErrors == {NoField, "bad input"}
TaskIds == {NoField, "", "task-1"}
Invalid == [parses |-> FALSE, error |-> NoField, taskId |-> NoField]
JsonValues == {Invalid} \cup [parses : {TRUE}, error : BackendErrors, taskId : {NoField}]

\* payload?.error and payload?.taskId: undefined on a body that did not parse
ErrorOf(json) == IF json.parses THEN json.error ELSE NoField
TaskIdOf(json) == IF json.parses THEN json.taskId ELSE NoField
\* JavaScript truthiness of an optional string
Truthy(s) == s # NoField /\ s # ""
\* a || b on optional strings
OrElse(a, b) == IF Truthy(a) THEN a ELSE b

ContentTypes == {"", "image/png", "application/json; charset=utf-8"}
\* contentType.includes("application/json")
IncludesJson(ct) == ct \in {"application/json", "application/json; charset=utf-8"}

\* response.ok
Ok(code) == code >= 200 /\ code <= 299

\* A body is a number of bytes and what JSON.parse makes of them.  Nothing
\* parses out of zero bytes, and a body sent under a type that is not JSON is
\* an image, which does not parse either.
Bodies == {b \in [size : {0, 10}, json : JsonValues] : b.size = 0 => ~b.json.parses}
PollReplies == {r \in [code : {200, 202, 500}, ctype : ContentTypes, body : Bodies] :
                   ~IncludesJson(r.ctype) => ~r.body.json.parses}

\* What the body of a response yields when it is read: response.json() gives
\* the parsed document (or throws), response.blob() gives a Blob of the
\* body's bytes typed by the content-type header.
NoBlob == [size |-> 0, type |-> ""]
JsonOf(r) == r.body.json
BlobOf(r) == [size |-> r.body.size, type |-> r.ctype]

\* replies of /api/analyze as handleSubmit reads them: a thrown fetch, or a
\* status and a JSON document (null when it does not parse)
UploadJson == {Invalid} \cup [parses : {TRUE}, error : {NoField, "Image file is required."},
                               taskId : TaskIds]
UploadReplies == [throws : {FALSE}, code : {202, 500}, json : UploadJson]
                   \cup {[throws |-> TRUE, code |-> 0, json |-> Invalid]}

\* ------------------------------------------------------------- the relays
\* The routes /api/analyze (POST) and /api/result/[taskId] (GET) stand between
\* the page and the backend.  `configured` is whether HIJAB_BACKEND_URL is
\* set; a backend reply is a thrown fetch, or a status, a content type and a
\* body.
MissingConfigMsg == "Missing HIJAB_BACKEND_URL configuration."
ImageRequiredMsg == "Image file is required."
StartFailedMsg == "Failed to start processing."
NoTaskIdMsg == "Backend did not return a task_id."
UnreachableMsg == "Unable to reach hijab processor backend."
TaskRequiredMsg == "Task ID is required."
NoContactMsg == "Unable to contact hijab processor backend."

\* NextResponse.json({ error }, { status }) and NextResponse.json({ taskId },
\* { status }) as the page's fetch receives them
ErrorResponse(code, error) ==
    [throws |-> FALSE, code |-> code,
     json |-> [parses |-> TRUE, error |-> error, taskId |-> NoField]]
TaskResponse(code, taskId) ==
    [throws |-> FALSE, code |-> code,
     json |-> [parses |-> TRUE, error |-> NoField, taskId |-> taskId]]

\* replies of the backend's /process_image: a thrown fetch, or a status and
\* a JSON document with optional error and task_id
BackendTaskIds == TaskIds \cup {"task-2"}
StartJson == [parses : {FALSE}, error : {NoField}, task_id : {NoField}]
                 \cup [parses : {TRUE}, error : BackendErrors, task_id : BackendTaskIds]
StartReplies == [throws : {FALSE}, code : {200, 500}, json : StartJson]
                    \cup [throws : {TRUE}, code : {0}, json : StartJson \cap [parses : {FALSE},
                              error : {NoField}, task_id : {NoField}]]

\* (mutant) POST that forwards whatever task_id the backend sent
POSTNoTaskCheck(configured, file, b) ==
    IF ~configured THEN ErrorResponse(500, MissingConfigMsg)
    ELSE IF file = NoFile THEN ErrorResponse(400, ImageRequiredMsg)
    ELSE IF b.throws THEN ErrorResponse(502, UnreachableMsg)
    ELSE LET error == IF b.json.parses THEN b.json.error ELSE NoField
             task_id == IF b.json.parses THEN b.json.task_id ELSE NoField
         IN  IF ~Ok(b.code) THEN ErrorResponse(b.code, OrElse(error, StartFailedMsg))
             ELSE TaskResponse(202, task_id)

\* POST of /api/analyze, for the uploaded file and the backend's reply b
POST(configured, file, b) ==
    IF ~configured THEN ErrorResponse(500, MissingConfigMsg)
    ELSE IF file = NoFile THEN ErrorResponse(400, ImageRequiredMsg)
    ELSE IF b.throws THEN ErrorResponse(502, UnreachableMsg)
    ELSE LET error == IF b.json.parses THEN b.json.error ELSE NoField
             task_id == IF b.json.parses THEN b.json.task_id ELSE NoField
         IN  IF ~Ok(b.code) THEN ErrorResponse(b.code, OrElse(error, StartFailedMsg))
             ELSE IF ~Truthy(task_id) THEN ErrorResponse(502, NoTaskIdMsg)
             ELSE TaskResponse(202, task_id)

\* what the page can receive from /api/analyze: a response of the relay to a
\* request that carries a file, or a thrown fetch
Threw == [throws |-> TRUE, code |-> 0, json |-> Invalid]
RelayUploadReplies ==
    {POST(configured, file, b) : configured \in BOOLEAN, file \in Files, b \in StartReplies}
        \cup {Threw}

\* replies of the backend's /get_result/{taskId}: a thrown fetch, or a
\* status, a content type and a body
ResultReplies == [throws : {FALSE}, code : {200, 201, 202, 404, 500}, ctype : ContentTypes,
                  body : Bodies]
                     \cup [throws : {TRUE}, code : {0}, ctype : {""},
                           body : {b \in Bodies : b.size = 0}]

\* NextResponse.json(document, { status }): a JSON body is never empty
JsonResponse(code, json) ==
    [code |-> code, ctype |-> "application/json", body |-> [size |-> 10, json |-> json]]
ErrorBody(error) == [parses |-> TRUE, error |-> error, taskId |-> NoField]
\* { status: "processing" }
ProcessingBody == [parses |-> TRUE, error |-> NoField, taskId |-> NoField]

\* (mutant) GET without the branch for 202
GETNo202(configured, taskId, b) ==
    IF ~configured THEN JsonResponse(500, ErrorBody(MissingConfigMsg))
    ELSE IF ~Truthy(taskId) THEN JsonResponse(400, ErrorBody(TaskRequiredMsg))
    ELSE IF b.throws THEN JsonResponse(502, ErrorBody(NoContactMsg))
    ELSE IF ~Ok(b.code)
         THEN JsonResponse(b.code, ErrorBody(OrElse(ErrorOf(b.body.json), ProcessingFailedMsg)))
    ELSE IF IncludesJson(b.ctype)
         THEN IF b.body.json.parses THEN JsonResponse(200, b.body.json)
              ELSE JsonResponse(502, ErrorBody(NoContactMsg))
    ELSE [code |-> 200, ctype |-> IF b.ctype = "" THEN "image/png" ELSE b.ctype,
          body |-> b.body]

\* GET of /api/result/[taskId], for the backend's reply b
GET(configured, taskId, b) ==
    IF ~configured THEN JsonResponse(500, ErrorBody(MissingConfigMsg))
    ELSE IF ~Truthy(taskId) THEN JsonResponse(400, ErrorBody(TaskRequiredMsg))
    ELSE IF b.throws THEN JsonResponse(502, ErrorBody(NoContactMsg))
    ELSE IF b.code = 202
         THEN JsonResponse(202, IF b.body.json.parses THEN b.body.json ELSE ProcessingBody)
    ELSE IF ~Ok(b.code)
         THEN JsonResponse(b.code, ErrorBody(OrElse(ErrorOf(b.body.json), ProcessingFailedMsg)))
    ELSE IF IncludesJson(b.ctype)
         THEN IF b.body.json.parses THEN JsonResponse(200, b.body.json)
              ELSE JsonResponse(502, ErrorBody(NoContactMsg))
    ELSE [code |-> 200, ctype |-> IF b.ctype = "" THEN "image/png" ELSE b.ctype,
          body |-> b.body]

\* what the page can receive from /api/result/<taskId> (a thrown fetch is the
\* action fetchThrows)
RelayPollReplies(taskId) ==
    {GET(configured, taskId, b) : configured \in BOOLEAN, b \in ResultReplies}

\* ------------------------------------------------------------------ state
VARIABLES
    selectedFile,       \* useState: the chosen File, or NoFile
    previewUrl,         \* useState: object URL of the chosen file, or Null
    resultUrl,          \* useState: object URL of the processed image, or Null
    status,             \* useState: Status
    errorMessage,       \* useState: string, or NoMsg
    pollControllerRef,  \* useRef: the loop whose AbortController is registered, or Null
    mounted,            \* FALSE once the component has been unmounted
    urls,               \* every object URL created so far and how often it was revoked
    uploads,            \* calls of handleSubmit awaiting the reply of /api/analyze
    loops,              \* every call of pollForResult: its controller and its position
    resetsInRow         \* handleReset calls since the last other step (0, 1, 2 = two or more)

vars == <<selectedFile, previewUrl, resultUrl, status, errorMessage,
          pollControllerRef, mounted, urls, uploads, loops, resetsInRow>>

UrlIds == 1..MaxUrls
LoopIds == 1..MaxSubmits

NoUrl == [kind |-> "none", file |-> NoFile, blob |-> NoBlob, revoked |-> 0]
\* One call of pollForResult.  pc: where it is suspended; aborted: its
\* controller's signal; attempt: the loop variable; json, blob: what the
\* pending read of the response body will yield; queries, sleeps: the queries
\* it has issued and the sleeps it has begun so far; outcome: what it emitted.
\* A call that has returned keeps its signal and its outcome only.
NoLoop == [pc |-> "unused", attempt |-> 0, aborted |-> FALSE, json |-> Invalid,
           blob |-> NoBlob, queries |-> 0, sleeps |-> 0, outcome |-> "none",
           taskId |-> NoField]

Init ==
    /\ selectedFile = NoFile
    /\ previewUrl = Null
    /\ resultUrl = Null
    /\ status = "idle"
    /\ errorMessage = NoMsg
    /\ pollControllerRef = Null
    /\ mounted = TRUE
    /\ urls = [u \in UrlIds |-> NoUrl]
    /\ uploads = 0
    /\ loops = [i \in LoopIds |-> NoLoop]
    /\ resetsInRow = 0

\* -------------------------------------------------------------- object URLs
Created(u) == Cardinality({h \in UrlIds : u[h].kind # "none"})

\* URL.createObjectURL: the next unused URL, for a file or for a reply's blob
createObjectURL(u, kind, file, blob) ==
    [u EXCEPT ![Created(u) + 1] =
        [kind |-> kind, file |-> file, blob |-> blob, revoked |-> 0]]

\* (mutant) resetObjectUrl that revokes nothing
resetObjectUrlNothing(u, url) == u

\* resetObjectUrl: URL.revokeObjectURL(url) when url is not null
resetObjectUrl(u, url) ==
    IF url # Null THEN [u EXCEPT ![url].revoked = @ + 1] ELSE u

\* The two effects keyed on previewUrl and resultUrl: when a render commits a
\* changed value, the cleanup of the previous render's effect revokes the
\* value that render saw.
effectCleanups(u, oldPreview, newPreview, oldResult, newResult) ==
    LET u1 == IF oldPreview # newPreview THEN resetObjectUrl(u, oldPreview) ELSE u
    IN  IF oldResult # newResult THEN resetObjectUrl(u1, oldResult) ELSE u1

\* the call has returned: its locals are gone
Returned(l, outcome) ==
    [NoLoop EXCEPT !.pc = "done", !.aborted = l.aborted, !.outcome = outcome,
                   !.taskId = l.taskId]

\* pollControllerRef.current?.abort(): the signal is aborted.  A fetch pending
\* on it rejects at once with an AbortError, which the loop's catch turns
\* into a return before any other event is handled; a response body being
\* read on it is errored, so the pending read yields no data.
abort(ls, ref) ==
    IF ref # Null
    THEN IF ls[ref].pc = "fetch"
         THEN [ls EXCEPT ![ref] = [Returned(@, "none") EXCEPT !.aborted = TRUE]]
         ELSE [ls EXCEPT ![ref].aborted = TRUE,
                         ![ref].json = Invalid,
                         ![ref].blob = NoBlob]
    ELSE ls

Started(ls) == Cardinality({i \in LoopIds : ls[i].pc # "unused"})

\* ------------------------------------------------------------ user actions
\* (mutant) handleFileChange that leaves the registered controller alone
handleFileChangeNoAbort(file) ==
    /\ mounted
    /\ file \in Files => Created(urls) < MaxUrls
    /\ errorMessage' = NoMsg
    /\ status' = "idle"
    /\ IF file = NoFile
       THEN /\ selectedFile' = NoFile
            /\ previewUrl' = Null
            /\ urls' = effectCleanups(resetObjectUrl(urls, previewUrl),
                                      previewUrl, Null, resultUrl, resultUrl)
            /\ UNCHANGED resultUrl
       ELSE LET u1 == resetObjectUrl(urls, previewUrl)
                nextPreviewUrl == Created(u1) + 1
                u2 == createObjectURL(u1, "preview", file, NoBlob)
                u3 == resetObjectUrl(u2, resultUrl)
            IN  /\ previewUrl' = nextPreviewUrl
                /\ selectedFile' = file
                /\ resultUrl' = Null
                /\ urls' = effectCleanups(u3, previewUrl, nextPreviewUrl, resultUrl, Null)
    /\ resetsInRow' = 0
    /\ UNCHANGED <<pollControllerRef, mounted, uploads, loops>>

\* handleFileChange: the file input changed to `file` (NoFile: files is empty)
handleFileChange(file) ==
    /\ mounted
    /\ file \in Files => Created(urls) < MaxUrls
    /\ errorMessage' = NoMsg
    /\ status' = "idle"
    /\ loops' = abort(loops, pollControllerRef)
    /\ IF file = NoFile
       THEN /\ selectedFile' = NoFile
            /\ previewUrl' = Null
            /\ urls' = effectCleanups(resetObjectUrl(urls, previewUrl),
                                      previewUrl, Null, resultUrl, resultUrl)
            /\ UNCHANGED resultUrl
       ELSE LET u1 == resetObjectUrl(urls, previewUrl)
                nextPreviewUrl == Created(u1) + 1
                u2 == createObjectURL(u1, "preview", file, NoBlob)
                u3 == resetObjectUrl(u2, resultUrl)
            IN  /\ previewUrl' = nextPreviewUrl
                /\ selectedFile' = file
                /\ resultUrl' = Null
                /\ urls' = effectCleanups(u3, previewUrl, nextPreviewUrl, resultUrl, Null)
    /\ resetsInRow' = 0
    /\ UNCHANGED <<pollControllerRef, mounted, uploads>>

\* handleSubmit up to its first await (the fetch of /api/analyze)
handleSubmit ==
    /\ mounted
    /\ IF selectedFile = NoFile
       THEN /\ errorMessage' = ChooseImageMsg
            /\ UNCHANGED <<status, resultUrl, urls, uploads>>
       ELSE /\ errorMessage' = NoMsg
            /\ status' = "uploading"
            /\ resultUrl' = Null
            /\ urls' = effectCleanups(resetObjectUrl(urls, resultUrl),
                                      previewUrl, previewUrl, resultUrl, Null)
            /\ uploads' = uploads + 1
    /\ resetsInRow' = 0
    /\ UNCHANGED <<selectedFile, previewUrl, pollControllerRef, mounted, loops>>

\* (mutant) handleReset that leaves the error message in place
handleResetKeepsMessage ==
    /\ mounted
    /\ selectedFile' = NoFile
    /\ previewUrl' = Null
    /\ resultUrl' = Null
    /\ urls' = effectCleanups(resetObjectUrl(resetObjectUrl(urls, previewUrl), resultUrl),
                              previewUrl, Null, resultUrl, Null)
    /\ status' = "idle"
    /\ loops' = abort(loops, pollControllerRef)
    /\ resetsInRow' = IF resetsInRow = 0 THEN 1 ELSE 2
    /\ UNCHANGED <<errorMessage, pollControllerRef, mounted, uploads>>

\* handleReset
handleReset ==
    /\ mounted
    /\ selectedFile' = NoFile
    /\ previewUrl' = Null
    /\ resultUrl' = Null
    /\ urls' = effectCleanups(resetObjectUrl(resetObjectUrl(urls, previewUrl), resultUrl),
                              previewUrl, Null, resultUrl, Null)
    /\ errorMessage' = NoMsg
    /\ status' = "idle"
    /\ loops' = abort(loops, pollControllerRef)
    /\ resetsInRow' = IF resetsInRow = 0 THEN 1 ELSE 2
    /\ UNCHANGED <<pollControllerRef, mounted, uploads>>

\* The component unmounts: the cleanups of the three effects run once, with
\* the values of the last render.  The state cells go with the component
\* (they read as their initial values from here on) and React drops every
\* later update of them.
unmount ==
    /\ mounted
    /\ mounted' = FALSE
    /\ urls' = resetObjectUrl(resetObjectUrl(urls, previewUrl), resultUrl)
    /\ loops' = abort(loops, pollControllerRef)
    /\ selectedFile' = NoFile
    /\ previewUrl' = Null
    /\ resultUrl' = Null
    /\ status' = "idle"
    /\ errorMessage' = NoMsg
    /\ resetsInRow' = 0
    /\ UNCHANGED <<pollControllerRef, uploads>>

\* ------------------------------------------------------------ the poll loop
\* (mutant) a test that lets one attempt too many through
LoopContinuesOneMore(attempt) == attempt <= MAX_POLLS

\* the for statement's test
LoopContinues(attempt) == attempt < MAX_POLLS

FreshLoop == CHOOSE i \in LoopIds :
                 /\ loops[i].pc = "unused"
                 /\ \A j \in LoopIds : j < i => loops[j].pc # "unused"

\* (mutant) pollForResult that registers its controller without aborting the
\* one registered before
pollForResultNoAbort(taskId) ==
    /\ loops' = [loops EXCEPT ![FreshLoop] =
                    [NoLoop EXCEPT !.pc = "fetch", !.queries = 1, !.taskId = taskId]]
    /\ pollControllerRef' = FreshLoop

\* pollForResult(taskId) up to its first await: a new controller replaces the
\* registered one, which is aborted, and the first query is issued
pollForResult(taskId) ==
    /\ loops' = [abort(loops, pollControllerRef) EXCEPT ![FreshLoop] =
                    [NoLoop EXCEPT !.pc = "fetch", !.queries = 1, !.taskId = taskId]]
    /\ pollControllerRef' = FreshLoop

\* return without touching any state
stop(i) ==
    /\ loops' = [loops EXCEPT ![i] = Returned(@, "none")]
    /\ UNCHANGED <<status, errorMessage, resultUrl, urls>>

\* (mutant) setErrorMessage(message); return
failKeepsStatus(i, outcome, message) ==
    /\ loops' = [loops EXCEPT ![i] = Returned(@, outcome)]
    /\ IF mounted THEN errorMessage' = message ELSE UNCHANGED errorMessage
    /\ UNCHANGED <<status, resultUrl, urls>>

\* setErrorMessage(message); setStatus("error"); return
fail(i, outcome, message) ==
    /\ loops' = [loops EXCEPT ![i] = Returned(@, outcome)]
    /\ IF mounted
       THEN errorMessage' = message /\ status' = "error"
       ELSE UNCHANGED <<errorMessage, status>>
    /\ UNCHANGED <<resultUrl, urls>>

\* setResultUrl(prev => { resetObjectUrl(prev); return URL.createObjectURL(blob) });
\* setStatus("success"); return
succeed(i) ==
    /\ loops' = [loops EXCEPT ![i] = Returned(@, "Success")]
    /\ IF mounted
       THEN LET u1 == resetObjectUrl(urls, resultUrl)
                next == Created(u1) + 1
                u2 == createObjectURL(u1, "result", NoFile, loops[i].blob)
            IN  /\ Created(urls) < MaxUrls
                /\ resultUrl' = next
                /\ urls' = effectCleanups(u2, previewUrl, previewUrl, resultUrl, next)
                /\ status' = "success"
       ELSE UNCHANGED <<resultUrl, urls, status>>
    /\ UNCHANGED errorMessage

\* (mutant) a thrown fetch is followed by the next attempt
fetchThrowsRetries(i) ==
    /\ loops[i].pc = "fetch"
    /\ ~loops[i].aborted
    /\ IF LoopContinues(loops[i].attempt + 1)
       THEN /\ loops' = [loops EXCEPT ![i].attempt = @ + 1, ![i].queries = @ + 1]
            /\ UNCHANGED <<status, errorMessage, resultUrl, urls>>
       ELSE fail(i, "Timeout", TimedOutMsg)
    /\ resetsInRow' = 0
    /\ UNCHANGED <<selectedFile, previewUrl, pollControllerRef, mounted, uploads>>

\* await fetch(...) throws on a signal that is not aborted (the transport
\* failed); the rejection of an aborted fetch is part of abort
fetchThrows(i) ==
    /\ loops[i].pc = "fetch"
    /\ ~loops[i].aborted
    /\ fail(i, "Failure", LostConnectionMsg)
    /\ resetsInRow' = 0
    /\ UNCHANGED <<selectedFile, previewUrl, pollControllerRef, mounted, uploads>>

\* await fetch(...) returns the response r (an aborted fetch never does)
fetchReturns(i, r) ==
    /\ loops[i].pc = "fetch"
    /\ ~loops[i].aborted
    /\ loops' = [loops EXCEPT
                    ![i].pc = IF r.code = 202 THEN "sleep"
                              ELSE IF ~Ok(r.code) THEN "readError"
                              ELSE IF IncludesJson(r.ctype) THEN "readJson"
                              ELSE "readBlob",
                    ![i].json = IF r.code # 202 /\ (~Ok(r.code) \/ IncludesJson(r.ctype))
                                THEN JsonOf(r) ELSE Invalid,
                    ![i].blob = IF Ok(r.code) /\ r.code # 202 /\ ~IncludesJson(r.ctype)
                                THEN BlobOf(r) ELSE NoBlob,
                    ![i].sleeps = IF r.code = 202 THEN @ + 1 ELSE @]
    /\ resetsInRow' = 0
    /\ UNCHANGED <<selectedFile, previewUrl, resultUrl, status, errorMessage,
                   pollControllerRef, mounted, urls, uploads>>

\* await sleep(POLL_INTERVAL_MS) returns after a 202; continue
sleepReturns(i) ==
    /\ loops[i].pc = "sleep"
    /\ IF loops[i].aborted
       THEN stop(i)
       ELSE IF LoopContinues(loops[i].attempt + 1)
       THEN /\ loops' = [loops EXCEPT ![i].pc = "fetch", ![i].attempt = @ + 1,
                                      ![i].queries = @ + 1]
            /\ UNCHANGED <<status, errorMessage, resultUrl, urls>>
       ELSE fail(i, "Timeout", TimedOutMsg)
    /\ resetsInRow' = 0
    /\ UNCHANGED <<selectedFile, previewUrl, pollControllerRef, mounted, uploads>>

\* await response.json().catch(() => null) returns, for a reply that is not
\* ok: null when the body does not parse or the read was aborted
readErrorReturns(i) ==
    /\ loops[i].pc = "readError"
    /\ LET payload == IF loops[i].aborted THEN Invalid ELSE loops[i].json
       IN  fail(i, "Failure", OrElse(ErrorOf(payload), ProcessingFailedMsg))
    /\ resetsInRow' = 0
    /\ UNCHANGED <<selectedFile, previewUrl, pollControllerRef, mounted, uploads>>

\* await response.json() returns or throws, for an ok reply typed as JSON
readJsonReturns(i) ==
    /\ loops[i].pc = "readJson"
    /\ IF loops[i].aborted
       THEN stop(i)
       ELSE IF ~loops[i].json.parses
       THEN fail(i, "Failure", LostConnectionMsg)
       ELSE fail(i, "Failure", OrElse(ErrorOf(loops[i].json), ProcessingFailedMsg))
    /\ resetsInRow' = 0
    /\ UNCHANGED <<selectedFile, previewUrl, pollControllerRef, mounted, uploads>>

\* (mutant) the blob's size is not looked at
readBlobReturnsAnySize(i) ==
    /\ loops[i].pc = "readBlob"
    /\ IF loops[i].aborted THEN stop(i) ELSE succeed(i)
    /\ resetsInRow' = 0
    /\ UNCHANGED <<selectedFile, previewUrl, pollControllerRef, mounted, uploads>>

\* await response.blob() returns or throws, for an ok reply of another type
readBlobReturns(i) ==
    /\ loops[i].pc = "readBlob"
    /\ IF loops[i].aborted
       THEN stop(i)
       ELSE IF loops[i].blob.size = 0
       THEN fail(i, "Failure", EmptyFileMsg)
       ELSE succeed(i)
    /\ resetsInRow' = 0
    /\ UNCHANGED <<selectedFile, previewUrl, pollControllerRef, mounted, uploads>>

\* (mutant) handleSubmit that sends the upload again when the fetch throws
handleSubmitResumesRetries(r) ==
    /\ uploads > 0
    /\ IF r.throws
       THEN /\ status' = IF mounted THEN "uploading" ELSE status
            /\ UNCHANGED <<uploads, errorMessage, loops, pollControllerRef>>
       ELSE /\ uploads' = uploads - 1
            /\ IF ~Ok(r.code) \/ ~Truthy(TaskIdOf(r.json))
               THEN /\ IF mounted
                       THEN /\ status' = "error"
                            /\ errorMessage' =
                                  IF ~Ok(r.code) THEN OrElse(ErrorOf(r.json), ContactModelMsg)
                                  ELSE MissingTaskMsg
                       ELSE UNCHANGED <<status, errorMessage>>
                    /\ UNCHANGED <<loops, pollControllerRef>>
               ELSE /\ status' = IF mounted THEN "processing" ELSE status
                    /\ pollForResult(TaskIdOf(r.json))
                    /\ UNCHANGED errorMessage
    /\ resetsInRow' = 0
    /\ UNCHANGED <<selectedFile, previewUrl, resultUrl, mounted, urls>>

\* handleSubmit after await fetch("/api/analyze") and await response.json()
handleSubmitResumes(r) ==
    /\ uploads > 0
    /\ uploads' = uploads - 1
    /\ IF r.throws \/ ~Ok(r.code) \/ ~Truthy(TaskIdOf(r.json))
       THEN /\ IF mounted
               THEN /\ status' = "error"
                    /\ errorMessage' =
                          IF r.throws THEN UploadFailedMsg
                          ELSE IF ~Ok(r.code) THEN OrElse(ErrorOf(r.json), ContactModelMsg)
                          ELSE MissingTaskMsg
               ELSE UNCHANGED <<status, errorMessage>>
            /\ UNCHANGED <<loops, pollControllerRef>>
       ELSE /\ status' = IF mounted THEN "processing" ELSE status
            /\ pollForResult(TaskIdOf(r.json))
            /\ UNCHANGED errorMessage
    /\ resetsInRow' = 0
    /\ UNCHANGED <<selectedFile, previewUrl, resultUrl, mounted, urls>>

\* ---------------------------------------------------------- specifications
\* The session: every handler at any time, MaxSubmits submissions, and a
\* backend that answers one loop with at most MaxPending 202s.
Next ==
    \/ \E file \in Files \cup {NoFile} : handleFileChange(file)
    \/ (selectedFile # NoFile => uploads + Started(loops) < MaxSubmits) /\ handleSubmit
    \/ \E r \in UploadReplies : handleSubmitResumes(r)
    \/ handleReset
    \/ unmount
    \/ \E i \in LoopIds : fetchThrows(i)
    \/ \E i \in LoopIds, r \in PollReplies :
           (r.code = 202 => loops[i].attempt < MaxPending) /\ fetchReturns(i, r)
    \/ \E i \in LoopIds : sleepReturns(i)
    \/ \E i \in LoopIds : readErrorReturns(i)
    \/ \E i \in LoopIds : readJsonReturns(i)
    \/ \E i \in LoopIds : readBlobReturns(i)

Spec == Init /\ [][Next]_vars

\* One submission at a time polled to its end: the backend may answer 202 as
\* often as it likes, so a loop can run through all MAX_POLLS attempts.
NextPoll ==
    \/ \E file \in Files \cup {NoFile} : handleFileChange(file)
    \/ (selectedFile # NoFile => uploads = 0 /\ Started(loops) = 0) /\ handleSubmit
    \/ \E r \in UploadReplies : handleSubmitResumes(r)
    \/ handleReset
    \/ unmount
    \/ \E i \in LoopIds : fetchThrows(i)
    \/ \E i \in LoopIds, r \in PollReplies : fetchReturns(i, r)
    \/ \E i \in LoopIds : sleepReturns(i)
    \/ \E i \in LoopIds : readErrorReturns(i)
    \/ \E i \in LoopIds : readJsonReturns(i)
    \/ \E i \in LoopIds : readBlobReturns(i)

SpecPoll == Init /\ [][NextPoll]_vars

\* The submit button is disabled (the form cannot be submitted) with no file
\* selected and while status is uploading or processing.
SubmitDisabled == selectedFile = NoFile \/ status \in {"uploading", "processing"}

\* The session as the page lets the user drive it: handleSubmit only runs
\* while the submit button is enabled.
NextUi ==
    \/ \E file \in Files \cup {NoFile} : handleFileChange(file)
    \/ ~SubmitDisabled /\ uploads + Started(loops) < MaxSubmits /\ handleSubmit
    \/ \E r \in UploadReplies : handleSubmitResumes(r)
    \/ handleReset
    \/ unmount
    \/ \E i \in LoopIds : fetchThrows(i)
    \/ \E i \in LoopIds, r \in PollReplies :
           (r.code = 202 => loops[i].attempt < MaxPending) /\ fetchReturns(i, r)
    \/ \E i \in LoopIds : sleepReturns(i)
    \/ \E i \in LoopIds : readErrorReturns(i)
    \/ \E i \in LoopIds : readJsonReturns(i)
    \/ \E i \in LoopIds : readBlobReturns(i)

SpecUi == Init /\ [][NextUi]_vars

\* One submission at a time, with the two relays between the page and the
\* backend: every response the page receives is what a relay makes of a
\* reply of the backend.
NextRelay ==
    \/ \E file \in Files \cup {NoFile} : handleFileChange(file)
    \/ (selectedFile # NoFile => uploads = 0 /\ Started(loops) = 0) /\ handleSubmit
    \/ \E r \in RelayUploadReplies : handleSubmitResumes(r)
    \/ handleReset
    \/ unmount
    \/ \E i \in LoopIds : fetchThrows(i)
    \/ \E i \in LoopIds : \E r \in RelayPollReplies(loops[i].taskId) :
           (r.code = 202 => loops[i].attempt < MaxPending) /\ fetchReturns(i, r)
    \/ \E i \in LoopIds : sleepReturns(i)
    \/ \E i \in LoopIds : readErrorReturns(i)
    \/ \E i \in LoopIds : readJsonReturns(i)
    \/ \E i \in LoopIds : readBlobReturns(i)

SpecRelay == Init /\ [][NextRelay]_vars

\* A reply that makes the loop create an object URL is given only while one
\* is left to create.
UrlLeftFor(r) ==
    (Ok(r.code) /\ r.code # 202 /\ ~IncludesJson(r.ctype) /\ r.body.size > 0)
        => Created(urls) < MaxUrls

\* the next step of the call i of pollForResult: the await it is suspended
\* at returns or throws
pollStep(i) ==
    \/ fetchThrows(i)
    \/ \E r \in PollReplies : UrlLeftFor(r) /\ fetchReturns(i, r)
    \/ sleepReturns(i)
    \/ readErrorReturns(i)
    \/ readJsonReturns(i)
    \/ readBlobReturns(i)

\* SpecPoll with every await of a poll loop eventually returning or throwing:
\* the browser settles every fetch, body read and timer.
NextPollFair ==
    \/ \E file \in Files \cup {NoFile} : handleFileChange(file)
    \/ (selectedFile # NoFile => uploads = 0 /\ Started(loops) = 0) /\ handleSubmit
    \/ \E r \in UploadReplies : handleSubmitResumes(r)
    \/ handleReset
    \/ unmount
    \/ \E i \in LoopIds : pollStep(i)

SpecPollFair ==
    Init /\ [][NextPollFair]_vars /\ \A i \in LoopIds : WF_vars(pollStep(i))

\* ------------------------------------------------------------------ claims
Running(i) == loops[i].pc \notin {"unused", "done"}
\* a loop that is still running on a token that has not been cancelled
Live(i) == Running(i) /\ ~loops[i].aborted
Session == <<status, errorMessage, resultUrl>>

\* C1: once a loop's token is cancelled, no step of that loop changes status,
\* errorMessage or resultUrl, wherever the loop was suspended and whatever the
\* response.
C1_CancelledLoopNeverMutates ==
    [][\A i \in LoopIds :
          (loops[i].aborted /\ loops'[i].pc # loops[i].pc) => Session' = Session]_vars

\* C2: resultUrl is set exactly when status is success.
C2_ResultIffSuccess == (resultUrl # Null) <=> (status = "success")

\* C3: at most one poll loop is live, and it is the one whose controller is
\* registered in pollControllerRef.
C3_AtMostOneLiveLoop ==
    /\ Cardinality({i \in LoopIds : Live(i)}) <= 1
    /\ \A i \in LoopIds : Live(i) => pollControllerRef = i

\* C3 witness: a second loop is live while the first, cancelled by its start,
\* is still suspended.
C3_Witness ==
    \E i, j \in LoopIds :
        /\ i < j
        /\ Running(i) /\ loops[i].aborted
        /\ Live(j)
        /\ status = "processing"

\* C4: a loop never issues more than MAX_POLLS queries, exactly one sleep
\* separates consecutive queries, Timeout is emitted only by a loop that has
\* issued MAX_POLLS queries and sets status error with the timed-out message,
\* and a loop that is not cancelled and wakes from the sleep after a 202 to
\* its MAX_POLLS-th query emits Timeout.
C4_TimeoutAfterMaxPolls ==
    /\ [](\A i \in LoopIds :
            /\ loops[i].queries <= MAX_POLLS
            /\ loops[i].pc = "fetch" => loops[i].sleeps + 1 = loops[i].queries)
    /\ [][\A i \in LoopIds :
            /\ (loops[i].outcome # "Timeout" /\ loops'[i].outcome = "Timeout") =>
                  /\ loops[i].queries = MAX_POLLS
                  /\ mounted => (status' = "error" /\ errorMessage' = TimedOutMsg)
            /\ (Live(i) /\ loops[i].pc = "sleep" /\ loops[i].queries = MAX_POLLS
                    /\ loops'[i].pc # "sleep") =>
                  loops'[i].outcome = "Timeout"]_vars

\* C4 witness: a loop that was not cancelled has timed out.
C4_Witness ==
    \E i \in LoopIds :
        /\ loops[i].outcome = "Timeout"
        /\ ~loops[i].aborted
        /\ status = "error"
        /\ errorMessage = TimedOutMsg

\* C5: a loop emits at most one outcome, a loop that ends on a token that was
\* never cancelled has emitted one of Success, Failure, Timeout, and a loop
\* whose token is cancelled emits none.
C5_OneOutcomeUnlessCancelled ==
    [][\A i \in LoopIds :
          /\ loops[i].aborted => loops'[i].outcome = loops[i].outcome
          /\ loops[i].outcome # "none" =>
                (loops'[i].outcome = loops[i].outcome /\ loops'[i].pc = "done")
          /\ (Live(i) /\ loops'[i].pc = "done" /\ ~loops'[i].aborted) =>
                loops'[i].outcome \in {"Success", "Failure", "Timeout"}]_vars

\* C6: no object URL is revoked twice, and after teardown every object URL
\* that was created has been revoked.
C6_RevokedExactlyOnce ==
    \A h \in UrlIds :
        /\ urls[h].revoked <= 1
        /\ (~mounted /\ urls[h].kind # "none") => urls[h].revoked = 1

Outstanding(kind) == {h \in UrlIds : urls[h].kind = kind /\ urls[h].revoked = 0}

C8_TerminalClassification ==
    [][\A i \in LoopIds :
          /\ (loops[i].pc = "fetch" /\ Running(i)' /\ loops'[i].pc # "fetch") =>
                \A r \in PollReplies :
                    (/\ Ok(r.code) /\ r.code # 202
                     /\ ~ IF IncludesJson(r.ctype)
                          THEN loops'[i].pc = "readJson" /\ loops'[i].json = r.body.json
                          ELSE /\ loops'[i].pc = "readBlob"
                               /\ loops'[i].blob = [size |-> r.body.size, type |-> r.ctype])
                       => ~fetchReturns(i, r)
          /\ (loops[i].pc = "readJson" /\ ~loops[i].aborted /\ loops'[i].pc = "done") =>
                /\ loops'[i].outcome = "Failure"
                /\ mounted =>
                      /\ status' = "error"
                      /\ resultUrl' = resultUrl
                      /\ Truthy(loops[i].json.error) => errorMessage' = loops[i].json.error
          /\ (loops[i].pc = "readBlob" /\ ~loops[i].aborted /\ loops'[i].pc = "done") =>
                IF loops[i].blob.size = 0
                THEN /\ loops'[i].outcome = "Failure"
                     /\ mounted =>
                           /\ status' = "error"
                           /\ errorMessage' = EmptyFileMsg
                           /\ resultUrl' = resultUrl
                ELSE /\ loops'[i].outcome = "Success"
                     /\ mounted =>
                           /\ status' = "success"
                           /\ resultUrl' # Null
                           /\ urls[resultUrl'].kind = "none"
                           /\ urls'[resultUrl'] =
                                 [kind |-> "result", file |-> NoFile,
                                  blob |-> loops[i].blob, revoked |-> 0]]_vars

\* C8 witness: a loop has ended in Success and the result URL holds the ten
\* bytes of an image/png reply.
C8_Witness ==
    /\ status = "success"
    /\ resultUrl # Null
    /\ urls[resultUrl] = [kind |-> "result", file |-> NoFile,
                          blob |-> [size |-> 10, type |-> "image/png"], revoked |-> 0]
    /\ \E i \in LoopIds : loops[i].outcome = "Success"

TokenCancelled == pollControllerRef = Null \/ loops[pollControllerRef].aborted

PostReset ==
    /\ status = "idle"
    /\ errorMessage = NoMsg
    /\ selectedFile = NoFile
    /\ previewUrl = Null
    /\ resultUrl = Null
    /\ TokenCancelled

ResetView == <<status, errorMessage, selectedFile, previewUrl, resultUrl,
               TokenCancelled, urls>>

\* C9: handleReset leaves status idle, no message, no file, no URLs and the
\* token cancelled, and a second handleReset right after the first changes
\* none of these (nor revokes anything again).
C9_ResetIdempotent ==
    [][handleReset => (PostReset' /\ (resetsInRow >= 1 => ResetView' = ResetView))]_vars

\* C9 witness: handleReset has run twice in a row, the first time on a
\* session that had an object URL to revoke.
C9_Witness ==
    /\ resetsInRow = 2
    /\ PostReset
    /\ \E h \in UrlIds : urls[h].revoked > 0

\* C10: handleSubmit with no file selected sets the choose-an-image message
\* and status error, sends nothing and starts no loop.
C10_SubmitWithoutFileIsError ==
    [][(handleSubmit /\ selectedFile = NoFile) =>
          /\ errorMessage' = ChooseImageMsg
          /\ status' = "error"
          /\ uploads' = uploads
          /\ loops' = loops]_vars

\* C11: handleSubmit with a file sends one upload; when its reply arrives, a
\* thrown fetch, a status that is not ok or a reply without a task id sets
\* status error and a message and starts no loop (and sends nothing again),
\* and any other reply sets status processing and starts exactly one loop,
\* which is then the only live one.
C11_OneUploadNoRetry ==
    [][/\ (handleSubmit /\ selectedFile # NoFile) =>
              (uploads' = uploads + 1 /\ status' = "uploading" /\ loops' = loops)
       /\ (uploads' > uploads \/ (status' = "uploading" /\ status # "uploading")) =>
              (handleSubmit /\ selectedFile # NoFile)
       /\ uploads' < uploads =>
              \A r \in UploadReplies :
                  handleSubmitResumes(r) =>
                      /\ uploads' = uploads - 1
                      /\ IF r.throws \/ ~Ok(r.code) \/ ~Truthy(TaskIdOf(r.json))
                         THEN /\ loops' = loops
                              /\ pollControllerRef' = pollControllerRef
                              /\ mounted => (status' = "error" /\ errorMessage' # NoMsg)
                         ELSE /\ Started(loops') = Started(loops) + 1
                              /\ Cardinality({i \in LoopIds : Live(i)'}) = 1
                              /\ mounted => (status' = "processing"
                                             /\ errorMessage' = errorMessage)]_vars

\* C11 witness: an upload was answered without a task id: status is error
\* with the missing-task message, nothing is in flight and no loop ever
\* started.
C11_Witness ==
    /\ status = "error"
    /\ errorMessage = MissingTaskMsg
    /\ uploads = 0
    /\ Started(loops) = 0

C13_TeardownCleansUp ==
    ~mounted =>
        /\ TokenCancelled
        /\ \A i \in LoopIds : ~Live(i)
        /\ \A h \in UrlIds : urls[h].kind # "none" => urls[h].revoked >= 1

\* C14: when handleSubmit sends a new upload (status becomes uploading), no
\* poll loop, which an earlier submission must have started, is still live.
C14_NoEarlierLoopLive ==
    [][(handleSubmit /\ selectedFile # NoFile) => \A i \in LoopIds : ~Live(i)']_vars

\* C15: right after handleReset, a step that is not a user action (a file
\* selection, a submission, another reset) nor the teardown leaves status
\* idle, no message, no file, no URLs and the token cancelled, and issues no
\* status query.
C15_ResetStays ==
    [][(/\ resetsInRow >= 1
        /\ ~handleSubmit
        /\ ~handleReset
        /\ ~unmount
        /\ ~(\E file \in Files \cup {NoFile} : handleFileChange(file))) =>
           /\ PostReset'
           /\ \A i \in LoopIds : loops'[i].queries <= loops[i].queries]_vars

\* C16: a loop issues another query only when it wakes from the sleep that
\* follows a 202.  On a token that is not cancelled, a thrown fetch ends the
\* loop at once in Failure with the lost-connection message; a reply whose
\* status is not ok leads to the read of its body and to no query, and that
\* read ends the loop in Failure with the body's error message if it has one
\* and the processing-failed message otherwise; at any attempt.
C16_OnlyPendingRetries ==
    [][\A i \in LoopIds :
          /\ loops'[i].queries > loops[i].queries => loops[i].pc \in {"unused", "sleep"}
          /\ (Live(i) /\ fetchThrows(i)) =>
                /\ loops'[i].pc = "done"
                /\ loops'[i].outcome = "Failure"
                /\ mounted => (status' = "error" /\ errorMessage' = LostConnectionMsg)
          /\ (loops[i].pc = "fetch" /\ Running(i)' /\ loops'[i].pc # "fetch") =>
                \A r \in PollReplies :
                    (~Ok(r.code) /\ fetchReturns(i, r)) =>
                        /\ loops'[i].pc = "readError"
                        /\ loops'[i].json = r.body.json
                        /\ loops'[i].queries = loops[i].queries
          /\ (loops[i].pc = "readError" /\ ~loops[i].aborted /\ loops'[i].pc # "readError") =>
                /\ loops'[i].pc = "done"
                /\ loops'[i].outcome = "Failure"
                /\ mounted =>
                      /\ status' = "error"
                      /\ errorMessage' = IF loops[i].json.parses /\ Truthy(loops[i].json.error)
                                         THEN loops[i].json.error
                                         ELSE ProcessingFailedMsg]_vars

\* C16 witness: the last of the MAX_POLLS queries of a loop that is not
\* cancelled was answered with a status that is not ok and a body carrying an
\* error message; the loop is reading that body.
C16_Witness ==
    \E i \in LoopIds :
        /\ Live(i)
        /\ loops[i].pc = "readError"
        /\ loops[i].queries = MAX_POLLS
        /\ loops[i].json.parses
        /\ loops[i].json.error = "bad input"

\* C17: a loop sleeps after a 202 only if attempts remain, so it never sleeps
\* after its MAX_POLLS-th query, and a loop that emits Timeout has slept
\* exactly MAX_POLLS - 1 times.
C17_NoSleepAfterLastAttempt ==
    /\ [](\A i \in LoopIds : loops[i].pc = "sleep" => loops[i].queries < MAX_POLLS)
    /\ [][\A i \in LoopIds :
            (loops[i].outcome # "Timeout" /\ loops'[i].outcome = "Timeout") =>
                loops[i].sleeps = MAX_POLLS - 1]_vars

\* C18: every loop that was started has a non-empty task id.  For every reply
\* of the backend to the start-processing call: if it is ok and carries a
\* non-empty task_id (and the relay is configured) the relay answers ok, and
\* the page starts one loop, live, for exactly that task_id; otherwise the
\* relay answers with a status that is not ok and an error message, and the
\* page starts no loop and sets status error with a message.
C18_LoopOnlyWithTaskId ==
    /\ [](\A i \in LoopIds : loops[i].pc # "unused" => Truthy(loops[i].taskId))
    /\ [][uploads' < uploads =>
            \A configured \in BOOLEAN, file \in Files, b \in StartReplies :
                handleSubmitResumes(POST(configured, file, b)) =>
                    IF /\ configured /\ ~b.throws /\ Ok(b.code)
                       /\ b.json.parses /\ Truthy(b.json.task_id)
                    THEN /\ Ok(POST(configured, file, b).code)
                         /\ Started(loops') = Started(loops) + 1
                         /\ pollControllerRef' # Null
                         /\ loops[pollControllerRef'].pc = "unused"
                         /\ loops'[pollControllerRef'].pc = "fetch"
                         /\ ~loops'[pollControllerRef'].aborted
                         /\ loops'[pollControllerRef'].taskId = b.json.task_id
                    ELSE /\ ~Ok(POST(configured, file, b).code)
                         /\ Truthy(POST(configured, file, b).json.error)
                         /\ loops' = loops
                         /\ pollControllerRef' = pollControllerRef
                         /\ mounted => (status' = "error" /\ errorMessage' # NoMsg)]_vars

\* C18 witness: the backend answered the start-processing call with an ok
\* status and no task_id: the page shows the relay's error and no loop has
\* started.
C18_Witness ==
    /\ status = "error"
    /\ errorMessage = NoTaskIdMsg
    /\ uploads = 0
    /\ Started(loops) = 0

\* what the loop will make of the response it has just received
ClassOf(l) ==
    IF l.pc = "sleep" THEN "Pending"
    ELSE IF l.pc \in {"readError", "readJson"} THEN "Failure"
    ELSE IF l.blob.size = 0 THEN "Failure"
    ELSE "Success"

\* the outcome class of a reply of the backend itself
BackendClass(configured, b) ==
    IF ~configured \/ b.throws THEN "Failure"
    ELSE IF b.code = 202 THEN "Pending"
    ELSE IF ~Ok(b.code) THEN "Failure"
    ELSE IF IncludesJson(b.ctype) THEN "Failure"
    ELSE IF b.body.size = 0 THEN "Failure"
    ELSE "Success"

\* C20: for every reply of the backend to a status query, the loop classifies
\* the relay's response as the backend's reply is classified: 202 Pending, a
\* status that is not ok Failure (and the relay keeps that status), ok and
\* JSON Failure, ok and binary the same bytes (Success, or the empty-file
\* Failure); a thrown backend fetch or a missing configuration is a Failure.
C20_RelayPreservesClass ==
    [][\A i \in LoopIds :
          (loops[i].pc = "fetch" /\ Running(i)' /\ loops'[i].pc # "fetch") =>
              \A configured \in BOOLEAN, b \in ResultReplies :
                  fetchReturns(i, GET(configured, loops[i].taskId, b)) =>
                      /\ ClassOf(loops'[i]) = BackendClass(configured, b)
                      /\ (configured /\ ~b.throws /\ ~Ok(b.code)) =>
                            GET(configured, loops[i].taskId, b).code = b.code
                      /\ BackendClass(configured, b) = "Success" =>
                            (loops'[i].pc = "readBlob" /\ loops'[i].blob.size = b.body.size)
                      /\ (configured /\ ~b.throws /\ Ok(b.code) /\ b.code # 202
                             /\ ~IncludesJson(b.ctype) /\ b.body.size = 0) =>
                            (loops'[i].pc = "readBlob" /\ loops'[i].blob.size = 0)]_vars

\* C20 witness: the relay could not reach the backend (or the backend's JSON
\* did not parse) and the loop ended in Failure with the relay's message.
C20_Witness ==
    /\ status = "error"
    /\ errorMessage = NoContactMsg
    /\ \E i \in LoopIds : loops[i].outcome = "Failure" /\ ~loops[i].aborted

\* C19: while the component is mounted and status is processing exactly one
\* loop is live, and it has issued at most MAX_POLLS queries; and, every await
\* of a loop eventually returning or throwing, status processing always
\* eventually gives way to another status.
C19_ProcessingEnds ==
    /\ []((mounted /\ status = "processing") =>
             /\ Cardinality({i \in LoopIds : Live(i)}) = 1
             /\ \A i \in LoopIds : Live(i) => loops[i].queries <= MAX_POLLS)
    /\ (status = "processing") ~> (status # "processing")

\* C19 witness: status is processing and the one live loop sleeps after the
\* 202 that answered its last query.
C19_Witness ==
    /\ mounted
    /\ status = "processing"
    /\ \E i \in LoopIds :
           Live(i) /\ loops[i].pc = "sleep" /\ loops[i].queries = MAX_POLLS

\* C21: status is error exactly when errorMessage is set.
C21_ErrorIffMessage == (status = "error") <=> (errorMessage # NoMsg)

====
